---- MODULE Spec2Model ----
(***************************************************************************)
(* Version Aware Coding (src/src/index.js): four versions of a person API, *)
(* their in-memory stores, the store migrations v1->v2 and v3->v4, the     *)
(* example workflow that switches the entry point, and the Flow            *)
(* assignability checks between the API types.                             *)
(*                                                                         *)
(* Representation.  Record ids are the numerals "1", "2", ...; they are    *)
(* written as the integers 1, 2, ... .  A JavaScript object is a function  *)
(* from its own property names to values; {} is the empty function.  The   *)
(* `people` stores live in `heap`, addressed by reference, so that two     *)
(* instances holding the same store object can be told from two instances  *)
(* holding equal copies.  Person records are values: Object.assign copies *)
(* the store shallowly, but no statement of the program writes a field of  *)
(* a record once it is stored.  Dates are millisecond counts measured from *)
(* the instant the module is loaded.  The `declare var` control instances *)
(* are taken to exist, as their declarations state.                        *)
(***************************************************************************)
EXTENDS Integers, Sequences, FiniteSets, TLC

VARIABLES pc, heap, v1ApiInstance, v2ApiInstance, v3ApiInstance,
          v4ApiInstance, entryPoint, now, call, ret, calls, flow

vars == <<pc, heap, v1ApiInstance, v2ApiInstance, v3ApiInstance,
          v4ApiInstance, entryPoint, now, call, ret, calls, flow>>

(* ------------------------------ bounds -------------------------------- *)
MaxId == 2
MaxCalls == 4
MaxTicks == 2
MaxRuns == 2

Ids == 1..MaxId
Names == {"fred", "anna"}
Ages == {23}

(* ------------------------- the declared types ------------------------- *)
v1Person == [id |-> "string", name |-> "string", age |-> "number"]
v2Person == v1Person
v3Person == v2Person
v4Person == [id |-> "string", name |-> "string", age |-> "number", birth |-> "Date"]

NoFields == [k \in {} |-> ""]
Prim(p) == [kind |-> "prim", prim |-> p, fields |-> NoFields]
Obj(fields) == [kind |-> "object", prim |-> "", fields |-> fields]
Arr(fields) == [kind |-> "Array", prim |-> "", fields |-> fields]
Method(params, result) == [params |-> params, ret |-> result]

v1Api ==
  [getPerson |-> Method(<<Prim("string")>>, Obj(v1Person)),
   addPerson |-> Method(<<Obj(v1Person)>>, Prim("void"))]

v2Api ==
  [getPerson |-> Method(<<Prim("string")>>, Obj(v2Person)),
   addPerson |-> Method(<<Obj(v2Person)>>, Prim("void")),
   allPerson |-> Method(<<>>, Arr(v2Person))]

v3Api ==
  [getPerson |-> Method(<<Prim("string")>>, Obj(v3Person)),
   addPerson |-> Method(<<Obj(v3Person)>>, Prim("void"))]

v4Api ==
  [getPerson |-> Method(<<Prim("string")>>, Obj(v4Person)),
   addPerson |-> Method(<<Obj(v4Person)>>, Prim("void"))]

(* The values of the record types, over the bounded ids, names and ages. *)
v1PersonValues == [id : Ids, name : Names, age : Ages]
v4PersonValues == [id : Ids, name : Names, age : Ages, birth : {0}]

(* --------------------- JavaScript object primitives -------------------- *)
EmptyObject == <<>>

Undefined == [kind |-> "undefined"]

(* o[k] = v *)
SetProp(o, k, v) == [x \in DOMAIN o \cup {k} |-> IF x = k THEN v ELSE o[x]]

(* o[k], the value wrapped so that undefined is a value too *)
GetProp(o, k) ==
  IF k \in DOMAIN o THEN [kind |-> "object", value |-> o[k]] ELSE Undefined

(* Object.assign(target, source): the target's properties overwritten and *)
(* extended by the source's own enumerable ones.                          *)
ObjectAssign(target, source) ==
  [k \in DOMAIN target \cup DOMAIN source |->
     IF k \in DOMAIN source THEN source[k] ELSE target[k]]

(* Object.keys(o): integer-like keys come in ascending numeric order. *)
ObjectKeys(o) ==
  CHOOSE s \in [1..Cardinality(DOMAIN o) -> DOMAIN o] :
    \A i, j \in 1..Cardinality(DOMAIN o) : i < j => s[i] < s[j]

(* ------------------------------- stores -------------------------------- *)
InstNames == {"v1ApiInstance", "v2ApiInstance", "v3ApiInstance", "v4ApiInstance"}

Inst(n) ==
  CASE n = "v1ApiInstance" -> v1ApiInstance
    [] n = "v2ApiInstance" -> v2ApiInstance
    [] n = "v3ApiInstance" -> v3ApiInstance
    [] n = "v4ApiInstance" -> v4ApiInstance

(* An instance exists once its object literal has been evaluated. *)
Constructed(n) == Inst(n).people # 0

(* this.people of instance n *)
People(n) == heap[Inst(n).people].props

(* a new object literal {} typed { [key: string]: T } *)
NewStore(h, type) == Append(h, [type |-> type, props |-> EmptyObject])

(* ------------------------------ migrations ----------------------------- *)
BirthOffset == 10 * 60 * 60 * 24 * 365

(* Faulty variant: the adapter copies the person and adds no birth. *)
v3PersonTov4PersonNoBirth(person, t) == ObjectAssign(EmptyObject, person)

(* v3PersonTov4Person, evaluated when the clock reads t *)
v3PersonTov4Person(person, t) ==
  ObjectAssign(ObjectAssign(EmptyObject, person), [birth |-> t - BirthOffset])

(* Faulty variant: people: {} - the migration is left out. *)
v2ApiInstancePeopleEmpty(h, src) ==
  [heap |-> NewStore(h, "v2Person"), ref |-> Len(h) + 1]

(* Faulty variant: people: v1ApiInstance.people - the store object is shared. *)
v2ApiInstancePeopleShared(h, src) == [heap |-> h, ref |-> src]

(* people: Object.assign({}, v1ApiInstance.people), with src the reference *)
(* v1ApiInstance.people: the new heap and the reference the field holds.   *)
v2ApiInstancePeople(h, src) ==
  LET h1 == NewStore(h, "v2Person")
      t == Len(h1)
  IN [heap |-> [h1 EXCEPT ![t].props = ObjectAssign(@, h1[src].props)],
      ref |-> t]

(* The reduce callback applied to keys[i], keys[i+1], ...; times[i] is the *)
(* clock reading of the i-th call of the adapter.                          *)
RECURSIVE v4PeopleReduce(_, _, _, _, _)
v4PeopleReduce(people, keys, i, source, times) ==
  IF i > Len(keys) THEN people
  ELSE v4PeopleReduce(
         SetProp(people, keys[i], v3PersonTov4Person(source[keys[i]], times[i])),
         keys, i + 1, source, times)

(* people: Object.keys(v3ApiInstance.people).reduce(..., {}) *)
v4ApiInstancePeople(h, src, times) ==
  LET h1 == NewStore(h, "v4Person")
      t == Len(h1)
  IN [heap |-> [h1 EXCEPT ![t].props =
                  v4PeopleReduce(@, ObjectKeys(h1[src].props), 1,
                                 h1[src].props, times)],
      ref |-> t]

(* The clock readings n calls can see from the instant t on. *)
ClockReadings(t, n) ==
  {ts \in [1..n -> t..MaxTicks] : \A i, j \in 1..n : i < j => ts[i] <= ts[j]}

LastReading(t, ts) == IF Len(ts) = 0 THEN t ELSE ts[Len(ts)]

(* ----------------------------- API methods ----------------------------- *)
(* addPerson(person) { this.people[person.id] = person } *)
addPerson(n, person) ==
  /\ Constructed(n)
  /\ heap' = [heap EXCEPT ![Inst(n).people].props = SetProp(@, person.id, person)]
  /\ call' = [inst |-> n, method |-> "addPerson", arg |-> person]
  /\ ret' = Undefined
  /\ calls' = calls + 1

(* getPerson(id) { return this.people[id] } *)
getPerson(n, id) ==
  /\ Constructed(n)
  /\ call' = [inst |-> n, method |-> "getPerson", arg |-> id]
  /\ ret' = GetProp(People(n), id)
  /\ calls' = calls + 1
  /\ UNCHANGED heap

(* allPerson() { return this.people }: the store object itself *)
allPersonResult(ref) == [kind |-> "reference", ref |-> ref, elems |-> <<>>]

allPerson(n) ==
  /\ Constructed(n)
  /\ call' = [inst |-> n, method |-> "allPerson", arg |-> 0]
  /\ ret' = allPersonResult(Inst(n).people)
  /\ calls' = calls + 1
  /\ UNCHANGED heap

ArgValues(n) == IF n = "v4ApiInstance" THEN v4PersonValues ELSE v1PersonValues

(* ---------------------- Flow's assignability check --------------------- *)
(* a is assignable where b is expected *)
TypeSub(a, b) ==
  /\ a.kind = b.kind
  /\ CASE a.kind = "prim" -> a.prim = b.prim
       [] a.kind = "object" ->
            \A f \in DOMAIN b.fields :
              f \in DOMAIN a.fields /\ a.fields[f] = b.fields[f]
       [] a.kind = "Array" -> a.fields = b.fields

(* Faulty variant: parameters checked in the same direction as the result. *)
MethodSubCovariant(m, n) ==
  /\ Len(m.params) <= Len(n.params)
  /\ \A i \in 1..Len(m.params) : TypeSub(m.params[i], n.params[i])
  /\ TypeSub(m.ret, n.ret)

(* method m can stand where method n is expected: parameters are checked *)
(* from n to m, the result from m to n                                   *)
MethodSub(m, n) ==
  /\ Len(m.params) <= Len(n.params)
  /\ \A i \in 1..Len(m.params) : TypeSub(n.params[i], m.params[i])
  /\ TypeSub(m.ret, n.ret)

(* Faulty variant: members the source lacks are not looked for. *)
FlowAssignCommonOnly(target, source) ==
  {[member |-> k, error |-> "incompatible"] :
     k \in {x \in DOMAIN target \cap DOMAIN source :
              ~MethodSub(source[x], target[x])}}

(* Faulty variant: the two types must have the same members. *)
FlowAssignExact(target, source) ==
  {[member |-> k, error |-> "Property not found"] :
     k \in (DOMAIN target \ DOMAIN source) \cup (DOMAIN source \ DOMAIN target)}
  \cup
  {[member |-> k, error |-> "incompatible"] :
     k \in {x \in DOMAIN target \cap DOMAIN source :
              ~MethodSub(source[x], target[x])}}

(* target = source: the errors Flow reports, one per offending member *)
FlowAssign(target, source) ==
  {[member |-> k, error |-> "Property not found"] :
     k \in DOMAIN target \ DOMAIN source}
  \cup
  {[member |-> k, error |-> "incompatible"] :
     k \in {x \in DOMAIN target \cap DOMAIN source :
              ~MethodSub(source[x], target[x])}}

NoFlow == [older |-> v1Api, newer |-> v1Api, done |-> FALSE, errors |-> {}]

(* ------------------------- the module's statements --------------------- *)
Init ==
  /\ pc = "l56"
  /\ heap = <<>>
  /\ v1ApiInstance = [people |-> 0]
  /\ v2ApiInstance = [people |-> 0]
  /\ v3ApiInstance = [people |-> 0]
  /\ v4ApiInstance = [people |-> 0]
  /\ entryPoint = "undefined"
  /\ now = 0
  /\ call = [inst |-> "none", method |-> "none", arg |-> 0]
  /\ ret = Undefined
  /\ calls = 0
  /\ flow = NoFlow

(* const v1ApiInstance = { people: {}, ... } *)
ConstructV1 ==
  /\ pc = "l56"
  /\ heap' = NewStore(heap, "v1Person")
  /\ v1ApiInstance' = [people |-> Len(heap) + 1]
  /\ pc' = "l66"
  /\ UNCHANGED <<v2ApiInstance, v3ApiInstance, v4ApiInstance, entryPoint, now,
                 call, ret, calls, flow>>

(* const v2ApiInstance = { people: Object.assign({}, v1ApiInstance.people), ... } *)
EvalV2 ==
  LET r == v2ApiInstancePeople(heap, v1ApiInstance.people)
  IN /\ heap' = r.heap
     /\ v2ApiInstance' = [people |-> r.ref]
     /\ UNCHANGED <<v1ApiInstance, v3ApiInstance, v4ApiInstance, entryPoint,
                    now, call, ret, calls, flow>>

ConstructV2 == pc = "l66" /\ EvalV2 /\ pc' = "l81"

(* entryPoint = v1ApiInstance *)
DeployV1 ==
  /\ pc = "l81"
  /\ entryPoint' = "v1ApiInstance"
  /\ pc' = "l82"
  /\ UNCHANGED <<heap, v1ApiInstance, v2ApiInstance, v3ApiInstance,
                 v4ApiInstance, now, call, ret, calls, flow>>

(* (entryPoint: v1Api).addPerson({...}) *)
UseV1 ==
  /\ pc = "l82"
  /\ \E person \in v1PersonValues : addPerson(entryPoint, person)
  /\ pc' = "l83"
  /\ UNCHANGED <<v1ApiInstance, v2ApiInstance, v3ApiInstance, v4ApiInstance,
                 entryPoint, now, flow>>

(* entryPoint = v2ApiInstance *)
DeployV2 ==
  /\ pc = "l83"
  /\ entryPoint' = "v2ApiInstance"
  /\ pc' = "l84"
  /\ UNCHANGED <<heap, v1ApiInstance, v2ApiInstance, v3ApiInstance,
                 v4ApiInstance, now, call, ret, calls, flow>>

(* (entryPoint: v2Api).allPerson() *)
UseV2 ==
  /\ pc = "l84"
  /\ allPerson(entryPoint)
  /\ pc' = "l90"
  /\ UNCHANGED <<v1ApiInstance, v2ApiInstance, v3ApiInstance, v4ApiInstance,
                 entryPoint, now, flow>>

(* const v3ApiInstance = { people: {}, ... } *)
ConstructV3 ==
  /\ pc = "l90"
  /\ heap' = NewStore(heap, "v3Person")
  /\ v3ApiInstance' = [people |-> Len(heap) + 1]
  /\ pc' = "l114"
  /\ UNCHANGED <<v1ApiInstance, v2ApiInstance, v4ApiInstance, entryPoint, now,
                 call, ret, calls, flow>>

(* const v4ApiInstance = { people: Object.keys(...).reduce(...), ... } *)
EvalV4 ==
  \E times \in ClockReadings(now, Cardinality(DOMAIN People("v3ApiInstance"))) :
    LET r == v4ApiInstancePeople(heap, v3ApiInstance.people, times)
    IN /\ heap' = r.heap
       /\ v4ApiInstance' = [people |-> r.ref]
       /\ now' = LastReading(now, times)
       /\ UNCHANGED <<v1ApiInstance, v2ApiInstance, v3ApiInstance, entryPoint,
                      call, ret, calls, flow>>

ConstructV4 == pc = "l114" /\ EvalV4 /\ pc' = "loaded"

(* Calls made by the holders of the instances once the module is loaded: *)
(* pc is "loaded" until the first of them, "serving" from then on.        *)
CallAddPerson ==
  /\ pc \in {"loaded", "serving"} /\ calls < MaxCalls
  /\ pc' = "serving"
  /\ \E n \in InstNames : \E person \in ArgValues(n) : addPerson(n, person)
  /\ UNCHANGED <<v1ApiInstance, v2ApiInstance, v3ApiInstance,
                 v4ApiInstance, entryPoint, now, flow>>

CallGetPerson ==
  /\ pc \in {"loaded", "serving"} /\ calls < MaxCalls
  /\ pc' = "serving"
  /\ \E n \in InstNames : \E id \in Ids : getPerson(n, id)
  /\ UNCHANGED <<v1ApiInstance, v2ApiInstance, v3ApiInstance,
                 v4ApiInstance, entryPoint, now, flow>>

CallAllPerson ==
  /\ pc \in {"loaded", "serving"} /\ calls < MaxCalls
  /\ pc' = "serving"
  /\ allPerson("v2ApiInstance")
  /\ UNCHANGED <<v1ApiInstance, v2ApiInstance, v3ApiInstance,
                 v4ApiInstance, entryPoint, now, flow>>

(* The clock advances between any two steps. *)
Tick ==
  /\ pc \notin {"flow"}
  /\ now < MaxTicks
  /\ now' = now + 1
  /\ UNCHANGED <<pc, heap, v1ApiInstance, v2ApiInstance, v3ApiInstance,
                 v4ApiInstance, entryPoint, call, ret, calls, flow>>

Next ==
  \/ ConstructV1 \/ ConstructV2 \/ DeployV1 \/ UseV1 \/ DeployV2 \/ UseV2
  \/ ConstructV3 \/ ConstructV4
  \/ CallAddPerson \/ CallGetPerson \/ CallAllPerson
  \/ Tick

Spec == Init /\ [][Next]_vars

(* ------------- the migrations as functions of the source store --------- *)
(* The stores addPerson can build: every record sits under its own id. *)
Stores(values) ==
  UNION {{s \in [D -> values] : \A k \in D : s[k].id = k} : D \in SUBSET Ids}

InitMig ==
  /\ pc = "mig"
  /\ \E s1 \in Stores(v1PersonValues) : \E s3 \in Stores(v1PersonValues) :
       heap = <<[type |-> "v1Person", props |-> s1],
                [type |-> "v3Person", props |-> s3]>>
  /\ v1ApiInstance = [people |-> 1]
  /\ v3ApiInstance = [people |-> 2]
  /\ v2ApiInstance = [people |-> 0]
  /\ v4ApiInstance = [people |-> 0]
  /\ entryPoint = "undefined"
  /\ now = 0
  /\ call = [inst |-> "none", method |-> "none", arg |-> 0]
  /\ ret = Undefined
  /\ calls = 0
  /\ flow = NoFlow

v4Stores == {r \in DOMAIN heap : heap[r].type = "v4Person"}

(* the v1->v2 migration of line 67 *)
MigrateV1V2 ==
  /\ pc = "mig"
  /\ ~Constructed("v2ApiInstance")
  /\ EvalV2
  /\ UNCHANGED pc

(* the v3->v4 migration of lines 116-119, run and run again *)
MigrateV3V4 ==
  /\ pc = "mig"
  /\ Cardinality(v4Stores) < MaxRuns
  /\ EvalV4
  /\ UNCHANGED pc

NextMig == MigrateV1V2 \/ MigrateV3V4 \/ Tick

SpecMig == InitMig /\ [][NextMig]_vars

(* ------------- the assignability check over API types ------------------ *)
Restrict(f, D) == [k \in D |-> f[k]]

(* The declared API types and what is left of them when members go. *)
ApiTypes ==
  {Restrict(a, D \cap DOMAIN a) :
     a \in {v1Api, v2Api, v3Api, v4Api},
     D \in SUBSET {"getPerson", "addPerson", "allPerson"}}

InitTypes ==
  /\ pc = "flow"
  /\ flow \in [older : ApiTypes, newer : ApiTypes, done : {FALSE}, errors : {{}}]
  /\ heap = <<>>
  /\ v1ApiInstance = [people |-> 0]
  /\ v2ApiInstance = [people |-> 0]
  /\ v3ApiInstance = [people |-> 0]
  /\ v4ApiInstance = [people |-> 0]
  /\ entryPoint = "undefined"
  /\ now = 0
  /\ call = [inst |-> "none", method |-> "none", arg |-> 0]
  /\ ret = Undefined
  /\ calls = 0

(* olderControlInstance = newerControlInstance *)
FlowCheck ==
  /\ pc = "flow"
  /\ ~flow.done
  /\ flow' = [flow EXCEPT !.done = TRUE,
                          !.errors = FlowAssign(flow.older, flow.newer)]
  /\ UNCHANGED <<pc, heap, v1ApiInstance, v2ApiInstance, v3ApiInstance,
                 v4ApiInstance, entryPoint, now, call, ret, calls>>

NextTypes == FlowCheck

SpecTypes == InitTypes /\ [][NextTypes]_vars

(* ============================== the claims ============================= *)

(* C1: when the entry point has just been switched from v1 to v2, every    *)
(* person added through v1 is returned by v2's getPerson(id).              *)
C1_HotReloadKeepsData ==
  pc = "l84" =>
    \A id \in DOMAIN People("v1ApiInstance") :
      GetProp(People("v2ApiInstance"), id)
        = [kind |-> "object", value |-> People("v1ApiInstance")[id]]

(* C2: the step that builds the v2 store gives it exactly the ids and the  *)
(* records of the v1 store, and leaves the v1 store as it was.             *)
C2_IdentityCopy ==
  [][(~Constructed("v2ApiInstance") /\ Constructed("v2ApiInstance")')
       => /\ People("v2ApiInstance")' = People("v1ApiInstance")
          /\ People("v1ApiInstance")' = People("v1ApiInstance")]_vars

C2_Witness ==
  /\ pc = "mig"
  /\ Constructed("v2ApiInstance")
  /\ v2ApiInstance.people # v1ApiInstance.people
  /\ Cardinality(DOMAIN People("v1ApiInstance")) = 2
  /\ People("v2ApiInstance") = People("v1ApiInstance")

(* C3: any two runs of the v3->v4 migration over the same v3 store produce *)
(* v4 stores with equal records, birth included.                           *)
C3_RerunEqual ==
  \A a, b \in v4Stores : heap[a].props = heap[b].props

(* C4: once the module is loaded, every person the v1 store held at the    *)
(* switch of the entry point is in the v4 store, with its id, name and age *)
(* and the birth the last step adds.                                       *)
C4_LinearChain ==
  pc = "loaded" =>
    \A id \in DOMAIN People("v1ApiInstance") :
      /\ id \in DOMAIN People("v4ApiInstance")
      /\ DOMAIN People("v4ApiInstance")[id] = {"id", "name", "age", "birth"}
      /\ \A f \in {"id", "name", "age"} :
           People("v4ApiInstance")[id][f] = People("v1ApiInstance")[id][f]

(* C5: the step that builds a v4 store from a v3 store of N records gives  *)
(* it N records, one under each source id, each with a birth that is a     *)
(* date; from the empty store it gives the empty store.                    *)
C5_MigrationTotal ==
  [][(v4ApiInstance'.people # v4ApiInstance.people)
       => LET source == People("v3ApiInstance")
              result == People("v4ApiInstance")'
          IN /\ DOMAIN result = DOMAIN source
             /\ Cardinality(DOMAIN result) = Cardinality(DOMAIN source)
             /\ \A id \in DOMAIN result :
                  /\ "birth" \in DOMAIN result[id]
                  /\ result[id].birth \in Int
                  /\ result[id].id = id
             /\ (source = EmptyObject => result = EmptyObject)]_vars

C5_Witness ==
  /\ pc = "mig"
  /\ Constructed("v4ApiInstance")
  /\ Cardinality(DOMAIN People("v3ApiInstance")) = 2
  /\ DOMAIN People("v4ApiInstance") = DOMAIN People("v3ApiInstance")
  /\ \A id \in DOMAIN People("v4ApiInstance") :
       "birth" \in DOMAIN People("v4ApiInstance")[id]

(* C6: an addPerson through one instance changes the store of that         *)
(* instance, by the record added, and the store of no other instance.      *)
C6_StoresNotShared ==
  [][(calls' = calls + 1 /\ call'.method = "addPerson")
       => \A n \in InstNames :
            Constructed(n) =>
              People(n)' = IF n = call'.inst
                           THEN SetProp(People(n), call'.arg.id, call'.arg)
                           ELSE People(n)]_vars

C6_Witness ==
  /\ pc = "serving"
  /\ call.method = "addPerson" /\ call.inst = "v4ApiInstance"
  /\ call.arg.id \in DOMAIN People("v4ApiInstance")
  /\ call.arg.id \notin DOMAIN People("v3ApiInstance")
  /\ DOMAIN People("v1ApiInstance") # {}
  /\ DOMAIN People("v2ApiInstance") = {}

(* C7: a member of the older type that the newer type lacks is reported    *)
(* as not found, by name; v2Api = v3Api is rejected for allPerson alone.   *)
C7_RemovedMemberRejected ==
  flow.done =>
    /\ \A k \in DOMAIN flow.older \ DOMAIN flow.newer :
         [member |-> k, error |-> "Property not found"] \in flow.errors
    /\ (flow.older = v2Api /\ flow.newer = v3Api)
         => flow.errors = {[member |-> "allPerson", error |-> "Property not found"]}

C7_Witness ==
  /\ flow.done /\ flow.older = v2Api /\ flow.newer = v3Api
  /\ [member |-> "allPerson", error |-> "Property not found"] \in flow.errors

(* C8: a newer type that keeps every member of the older one unchanged and *)
(* only adds members is accepted; v1Api = v2Api is accepted.               *)
C8_AddedMemberAccepted ==
  flow.done =>
    /\ (/\ DOMAIN flow.older \subseteq DOMAIN flow.newer
        /\ \A k \in DOMAIN flow.older : flow.newer[k] = flow.older[k])
         => flow.errors = {}
    /\ (flow.older = v1Api /\ flow.newer = v2Api) => flow.errors = {}

C8_Witness ==
  /\ flow.done /\ flow.older = v1Api /\ flow.newer = v2Api
  /\ "allPerson" \in DOMAIN flow.newer \ DOMAIN flow.older
  /\ flow.errors = {}

(* C9: v3Api = v4Api is rejected, and the error is on addPerson and not on *)
(* getPerson.                                                              *)
C9_RequiredFieldFlagged ==
  (flow.done /\ flow.older = v3Api /\ flow.newer = v4Api) =>
    /\ [member |-> "addPerson", error |-> "incompatible"] \in flow.errors
    /\ \A e \in flow.errors : e.member # "getPerson"

C9_Witness ==
  /\ flow.done /\ flow.older = v3Api /\ flow.newer = v4Api
  /\ flow.errors = {[member |-> "addPerson", error |-> "incompatible"]}
  /\ DOMAIN v4Person \ DOMAIN v3Person = {"birth"}

(* C10: what allPerson() returns on the v2 instance is an array whose      *)
(* elements are the records of the v2 store, one per stored id.            *)
C10_AllPersonArray ==
  (call.method = "allPerson" /\ call.inst = "v2ApiInstance") =>
    /\ ret.kind = "Array"
    /\ Len(ret.elems) = Cardinality(DOMAIN People("v2ApiInstance"))
    /\ {ret.elems[i] : i \in 1..Len(ret.elems)}
         = {People("v2ApiInstance")[id] : id \in DOMAIN People("v2ApiInstance")}
====
